---------------------------- MODULE Spec2Model ----------------------------
(***************************************************************************)
(* A model of tonic.ts: the pitch/notation codec, the ChordClass and Scale *)
(* registries, Chord, Key and the roman-numeral resolver.                  *)
(*                                                                         *)
(* Strings are sequences of one-character strings.  The characters outside *)
(* ASCII are written by name: "sharp" (U+266F), "flat" (U+266D), "dsharp"  *)
(* (U+1D12A), "dflat" (U+1D12B), "deg" (U+00B0), "oslash" (U+00F8) and     *)
(* "Oslash" (U+00D8).  A thrown Error is the value [kind |-> "error", ...] *)
(* and every operator that calls a throwing one passes the error on.       *)
(***************************************************************************)
EXTENDS Integers, Sequences, FiniteSets, TLC

(***************************************************************************)
(* Bounds of the model.                                                    *)
(***************************************************************************)
\* absolute pitch values run over -MaxBelow .. MaxMidi
MaxMidi == 127
MaxBelow == 13
\* the integers given to normalize run over -MaxNorm .. MaxNorm
MaxNorm == 40
\* numeric inversions given to invert run over -1 .. MaxInversion
MaxInversion == 5
\* the number of calls of one caller expression (a call, then calls on its result)
MaxChain == 3

(***************************************************************************)
(* JavaScript values and string helpers.                                   *)
(***************************************************************************)
\* the result of arithmetic on undefined; no pitch value of the model equals it
NaN == -1000000

Err(m) == [kind |-> "error", msg |-> m]

IsErr(v) == v.kind = "error"

Num(n) == [kind |-> "number", value |-> n]

Str(s) == [kind |-> "string", value |-> s]

LowerLetters ==
  <<"a","b","c","d","e","f","g","h","i","j","k","l","m",
    "n","o","p","q","r","s","t","u","v","w","x","y","z">>

UpperLetters ==
  <<"A","B","C","D","E","F","G","H","I","J","K","L","M",
    "N","O","P","Q","R","S","T","U","V","W","X","Y","Z">>

Digits == <<"0","1","2","3","4","5","6","7","8","9">>

DigitChars == {Digits[i] : i \in 1..10}

Range(s) == {s[i] : i \in 1..Len(s)}

toUpperCaseChar(c) ==
  IF \E i \in 1..26 : LowerLetters[i] = c
    THEN UpperLetters[CHOOSE i \in 1..26 : LowerLetters[i] = c]
    ELSE IF c = "oslash" THEN "Oslash" ELSE c

toLowerCaseChar(c) ==
  IF \E i \in 1..26 : UpperLetters[i] = c
    THEN LowerLetters[CHOOSE i \in 1..26 : UpperLetters[i] = c]
    ELSE IF c = "Oslash" THEN "oslash" ELSE c

toUpperCase(s) == [i \in 1..Len(s) |-> toUpperCaseChar(s[i])]

toLowerCase(s) == [i \in 1..Len(s) |-> toLowerCaseChar(s[i])]

\* the 0-based index of x in the array a, -1 when absent
indexOf(a, x) ==
  IF \E i \in 1..Len(a) : a[i] = x
    THEN (CHOOSE i \in 1..Len(a) : a[i] = x /\ \A j \in 1..(i-1) : a[j] # x) - 1
    ELSE -1

\* the first position at or after i whose character is outside S (Len(s)+1 when
\* there is none): where a greedy [S]* that starts at i stops
SpanEnd(s, i, S) ==
  CHOOSE k \in i..(Len(s)+1) :
    /\ \A m \in i..(k-1) : s[m] \in S
    /\ (k = Len(s)+1 \/ s[k] \notin S)

RECURSIVE DigitsOf(_)
DigitsOf(n) ==
  IF n < 10 THEN <<Digits[n+1]>> ELSE DigitsOf(n \div 10) \o <<Digits[(n % 10)+1]>>

\* String(n), as the + of a string and a number makes it
NumberToString(n) ==
  IF n = NaN THEN <<"N","a","N">>
  ELSE IF n < 0 THEN <<"-">> \o DigitsOf(0 - n) ELSE DigitsOf(n)

RECURSIVE StringToNumber(_)
\* Number(s) of a non-empty string of decimal digits
StringToNumber(s) ==
  IF Len(s) = 0 THEN 0
  ELSE 10 * StringToNumber(SubSeq(s, 1, Len(s)-1)) + indexOf(Digits, s[Len(s)])

\* a + b of two numbers
JsAdd(a, b) == IF a = NaN \/ b = NaN THEN NaN ELSE a + b

\* a % b of JavaScript: the remainder has the sign of a
JsRem(a, b) ==
  IF a = NaN THEN NaN ELSE IF a >= 0 THEN a % b ELSE 0 - ((0 - a) % b)

\* a - b of two numbers
JsSub(a, b) == IF a = NaN \/ b = NaN THEN NaN ELSE a - b

RECURSIVE Join(_, _)
Join(a, sep) ==
  IF Len(a) = 0 THEN <<>>
  ELSE IF Len(a) = 1 THEN a[1]
  ELSE a[1] \o sep \o Join(Tail(a), sep)

(***************************************************************************)
(* accidentals.ts and PitchClass.ts: the notation codec.                   *)
(***************************************************************************)
AccidentalValues(c) ==
  CASE c = "#" -> 1
    [] c = "sharp" -> 1
    [] c = "b" -> -1
    [] c = "flat" -> -1
    [] c = "dsharp" -> 2
    [] c = "dflat" -> -2
    [] OTHER -> NaN

SharpNoteNames ==
  << <<"C">>, <<"C","sharp">>, <<"D">>, <<"D","sharp">>, <<"E">>, <<"F">>,
     <<"F","sharp">>, <<"G">>, <<"G","sharp">>, <<"A">>, <<"A","sharp">>, <<"B">> >>

FlatNoteNames ==
  << <<"C">>, <<"D","flat">>, <<"D">>, <<"E","flat">>, <<"E">>, <<"F">>,
     <<"G","flat">>, <<"G">>, <<"A","flat">>, <<"A">>, <<"B","flat">>, <<"B">> >>

NoteNames == SharpNoteNames

\* [A-G] under the i flag
NaturalLetters == {"A","B","C","D","E","F","G","a","b","c","d","e","f","g"}

\* [#sharp b flat dsharp dflat] under the i flag, which adds B
AccidentalChars == {"#", "sharp", "b", "B", "flat", "dsharp", "dflat"}

normalize_neg(pitchClass) == JsRem(pitchClass, 12)

normalize(pitchClass) == JsRem(JsAdd(JsRem(pitchClass, 12), 12), 12)

normalizePitchClass(pitchClass) == JsRem(JsAdd(JsRem(pitchClass, 12), 12), 12)

getPitchClassName(pitchClass) ==
  IF pitchClass \in 0..11 THEN NoteNames[pitchClass + 1]
  ELSE <<"u","n","d","e","f","i","n","e","d">>

RECURSIVE SumAccidentals(_, _)
\* for (const c of accidentals) pitch += accidentalValues[c]
SumAccidentals(pitch, accidentals) ==
  IF Len(accidentals) = 0 THEN pitch
  ELSE SumAccidentals(JsAdd(pitch, AccidentalValues(accidentals[1])), Tail(accidentals))

fromScientificNotation(name) ==
  IF Len(name) = 0 \/ name[1] \notin NaturalLetters
    THEN Err("is not in scientific notation")
  ELSE
    LET d == SpanEnd(name, 2, AccidentalChars)
        e == SpanEnd(name, d, DigitChars)
    IN IF ~(d <= Len(name) /\ e = Len(name) + 1)
         THEN Err("is not in scientific notation")
       ELSE
         LET naturalName == <<name[1]>>
             accidentals == SubSeq(name, 2, d - 1)
             octave == SubSeq(name, d, Len(name))
             pitch == indexOf(SharpNoteNames, toUpperCase(naturalName))
                        + 12 * (1 + StringToNumber(octave))
         IN Num(SumAccidentals(pitch, accidentals))

toScientificNotation(midiNumber) ==
  LET octave == (midiNumber \div 12) - 1
  IN getPitchClassName(normalize(midiNumber)) \o NumberToString(octave)

fromString(name, normal) ==
  IF Len(name) = 0 \/ name[1] \notin NaturalLetters
       \/ SpanEnd(name, 2, AccidentalChars) # Len(name) + 1
    THEN Err("is not a pitch class name")
  ELSE
    LET naturalName == <<name[1]>>
        accidentals == SubSeq(name, 2, Len(name))
        pitch == SumAccidentals(indexOf(SharpNoteNames, toUpperCase(naturalName)),
                                accidentals)
    IN Num(IF normal THEN normalize(pitch) ELSE pitch)

fromHelmholtzNotation(name) ==
  IF Len(name) = 0 \/ name[1] \notin NaturalLetters
    THEN Err("is not in Helmholtz notation")
  ELSE
    LET c == SpanEnd(name, 2, AccidentalChars)
        a == SpanEnd(name, c, {","})
        e == SpanEnd(name, a, {"'"})
    IN IF e # Len(name) + 1
         THEN Err("is not in Helmholtz notation")
       ELSE
         LET pitchClassName == SubSeq(name, 1, c - 1)
             commas == SubSeq(name, c, a - 1)
             apostrophes == SubSeq(name, a, Len(name))
             pitchClassNumber == fromString(pitchClassName, FALSE).value
             octave == 4 - (IF pitchClassName = toUpperCase(pitchClassName) THEN 1 ELSE 0)
                         - Len(commas) + Len(apostrophes)
         IN Num(JsAdd(12 * octave, pitchClassNumber))

(***************************************************************************)
(* The same codec as the functions of the notation module, which Pitch     *)
(* calls.                                                                  *)
(***************************************************************************)
pitchFromScientificNotation(name) == fromScientificNotation(name)

pitchFromHelmholtzNotation(name) == fromHelmholtzNotation(name)

pitchToScientificNotation(midiNumber) == toScientificNotation(midiNumber)

pitchToPitchClass(midiNumber) == normalizePitchClass(midiNumber)

(***************************************************************************)
(* Pitch.                                                                  *)
(***************************************************************************)
\* new Pitch(midiNumber, name); name = <<>> stands for an absent name
Pitch(midiNumber, name) ==
  [kind |-> "Pitch",
   midiNumber |-> midiNumber,
   name |-> IF name # <<>> THEN name ELSE pitchToScientificNotation(midiNumber)]

Pitch_fromMidiNumber(midiNumber) == Pitch(midiNumber, <<>>)

Pitch_fromString(name) ==
  LET midiNumber == IF \E i \in 1..Len(name) : name[i] \in DigitChars
                      THEN pitchFromScientificNotation(name)
                      ELSE pitchFromHelmholtzNotation(name)
  IN IF IsErr(midiNumber) THEN midiNumber ELSE Pitch(midiNumber.value, name)

Pitch_toString(p) == p.name

Pitch_transposeBy(p, interval) == Pitch(JsAdd(p.midiNumber, interval), <<>>)


(***************************************************************************)
(* Interval, the PitchClass class, PitchLike and rotateArray: used by      *)
(* chord.ts and by Scale/Key.                                              *)
(***************************************************************************)
\* an Interval is its semitone count
Interval_fromSemitones(n) == n

PitchClass_fromSemitones(n) ==
  [kind |-> "PitchClass", semitones |-> normalize(n),
   name |-> getPitchClassName(normalize(n))]

PitchClass_transposeBy(p, interval) ==
  PitchClass_fromSemitones(JsAdd(p.semitones, interval))

transposeBy(root, interval) ==
  IF root.kind = "Pitch" THEN Pitch_transposeBy(root, interval)
  ELSE PitchClass_transposeBy(root, interval)

\* the number a PitchLike stands for
numeric(p) == IF p.kind = "Pitch" THEN p.midiNumber ELSE p.semitones

\* the signed distance from a to b
Interval_between(a, b) == Interval_fromSemitones(JsSub(numeric(b), numeric(a)))

\* asPitchLike of a PitchLike, which it is already, or of a string (a Str), which
\* is parsed as the name of a pitch class or else as the name of a pitch
asPitchLike(tonic) ==
  IF tonic.kind = "string"
    THEN LET pitchClass == fromString(tonic.value, TRUE)
         IN IF IsErr(pitchClass) THEN Pitch_fromString(tonic.value)
            ELSE PitchClass_fromSemitones(pitchClass.value)
  ELSE tonic

\* the array rotated left by n places, cyclically
rotateArray(array, n) ==
  LET k == n % Len(array)
  IN SubSeq(array, k + 1, Len(array)) \o SubSeq(array, 1, k)

(***************************************************************************)
(* chord.ts: the built-in chord classes and their registration.            *)
(***************************************************************************)
inversionNames == << <<"a">>, <<"c">>, <<"d">> >>

chordClassTable ==
  <<
    [name |-> <<"M","a","j","o","r">>,
     abbrs |-> <<<<>>, <<"M">>>>,
     intervals |-> <<"0","4","7">>],
    [name |-> <<"M","i","n","o","r">>,
     abbrs |-> <<<<"m">>>>,
     intervals |-> <<"0","3","7">>],
    [name |-> <<"A","u","g","m","e","n","t","e","d">>,
     abbrs |-> <<<<"+">>, <<"a","u","g">>>>,
     intervals |-> <<"0","4","8">>],
    [name |-> <<"D","i","m","i","n","i","s","h","e","d">>,
     abbrs |-> <<<<"deg">>, <<"d","i","m">>>>,
     intervals |-> <<"0","3","6">>],
    [name |-> <<"S","u","s","2">>,
     abbrs |-> <<<<"s","u","s","2">>>>,
     intervals |-> <<"0","2","7">>],
    [name |-> <<"S","u","s","4">>,
     abbrs |-> <<<<"s","u","s","4">>>>,
     intervals |-> <<"0","5","7">>],
    [name |-> <<"D","o","m","i","n","a","n","t"," ","7","t","h">>,
     abbrs |-> <<<<"7">>, <<"d","o","m","7">>>>,
     intervals |-> <<"0","4","7","t">>],
    [name |-> <<"A","u","g","m","e","n","t","e","d"," ","7","t","h">>,
     abbrs |-> <<<<"+","7">>, <<"7","a","u","g">>>>,
     intervals |-> <<"0","4","8","t">>],
    [name |-> <<"D","i","m","i","n","i","s","h","e","d"," ","7","t","h">>,
     abbrs |-> <<<<"deg","7">>, <<"d","i","m","7">>>>,
     intervals |-> <<"0","3","6","9">>],
    [name |-> <<"M","a","j","o","r"," ","7","t","h">>,
     abbrs |-> <<<<"m","a","j","7">>>>,
     intervals |-> <<"0","4","7","e">>],
    [name |-> <<"M","i","n","o","r"," ","7","t","h">>,
     abbrs |-> <<<<"m","i","n","7">>>>,
     intervals |-> <<"0","3","7","t">>],
    [name |-> <<"D","o","m","i","n","a","n","t"," ","7","b","5">>,
     abbrs |-> <<<<"7","b","5">>>>,
     intervals |-> <<"0","4","6","t">>],
    [name |-> <<"M","i","n","o","r"," ","7","t","h"," ","b","5">>,
     abbrs |-> <<<<"oslash">>, <<"Oslash">>, <<"m","7","b","5">>>>,
     intervals |-> <<"0","3","6","t">>],
    [name |-> <<"D","i","m","i","n","i","s","h","e","d"," ","M","a","j"," ","7","t","h">>,
     abbrs |-> <<<<"deg","M","a","j","7">>>>,
     intervals |-> <<"0","3","6","e">>],
    [name |-> <<"M","i","n","o","r","-","M","a","j","o","r"," ","7","t","h">>,
     abbrs |-> <<<<"m","i","n","/","m","a","j","7">>, <<"m","i","n","(","m","a","j","7",")">>>>,
     intervals |-> <<"0","3","7","e">>],
    [name |-> <<"6","t","h">>,
     abbrs |-> <<<<"6">>, <<"M","6">>, <<"M","6">>, <<"m","a","j","6">>>>,
     intervals |-> <<"0","4","7","9">>],
    [name |-> <<"M","i","n","o","r"," ","6","t","h">>,
     abbrs |-> <<<<"m","6">>, <<"m","i","n","6">>>>,
     intervals |-> <<"0","3","7","9">>]
  >>

Major == <<"M","a","j","o","r">>

Minor == <<"M","i","n","o","r">>

\* s.replace(pat, rep) of a string or, with notAtEnd, of the pattern pat(?!$):
\* the first occurrence only
Replace(s, pat, rep, notAtEnd) ==
  LET hits == {i \in 1..(Len(s) - Len(pat) + 1) :
                 /\ SubSeq(s, i, i + Len(pat) - 1) = pat
                 /\ (notAtEnd => i + Len(pat) - 1 < Len(s))}
  IN IF hits = {} THEN s
     ELSE LET i == CHOOSE h \in hits : \A g \in hits : h <= g
          IN SubSeq(s, 1, i - 1) \o rep \o SubSeq(s, i + Len(pat), Len(s))

\* the semitones of one character of an intervals string
toneNames(c) == IF c = "t" THEN 10 ELSE IF c = "e" THEN 11 ELSE indexOf(Digits, c)

\* new ChordClass({abbrs, fullName, intervals, name})
ChordClass(abbrs, fullName, intervals, name) ==
  [kind |-> "ChordClass", name |-> name, fullName |-> fullName,
   abbrs |-> abbrs, intervals |-> intervals]

\* the function chordClassArray maps over the table
makeChordClass(row) ==
  LET fullName == row.name
      name == Replace(Replace(Replace(Replace(row.name,
                <<"M","a","j","o","r">>, <<"M","a","j">>, TRUE),
                <<"M","i","n","o","r">>, <<"M","i","n">>, TRUE),
                <<"D","o","m","i","n","a","n","t">>, <<"D","o","m">>, FALSE),
                <<"D","i","m","i","n","i","s","h","e","d">>, <<"D","i","m">>, FALSE)
      intervalInstances ==
        [i \in 1..Len(row.intervals) |-> Interval_fromSemitones(toneNames(row.intervals[i]))]
  IN ChordClass(row.abbrs, fullName, intervalInstances, name)

chordClassArray == [i \in 1..Len(chordClassTable) |-> makeChordClass(chordClassTable[i])]

\* intervals.map((i) => i.semitones).join(',')
pitchKey(intervals) ==
  Join([i \in 1..Len(intervals) |-> NumberToString(intervals[i])], <<",">>)

pitchKey_triad(intervals) ==
  Join([i \in 1..3 |-> NumberToString(intervals[i])], <<",">>)

addChord_triadKey(map, ref) ==
  LET chordClass == chordClassArray[ref]
      keys == ({chordClass.name, chordClass.fullName, pitchKey_triad(chordClass.intervals)}
                 \cup Range(chordClass.abbrs)) \ {<<>>}
  IN [key \in (DOMAIN map) \cup keys |-> IF key \in keys THEN ref ELSE map[key]]

\* ChordClass.chordMap after addChord(chordClassArray[ref]); a value of the map is
\* the reference ref to the chord class, its index in chordClassArray
addChord(map, ref) ==
  LET chordClass == chordClassArray[ref]
      keys == ({chordClass.name, chordClass.fullName, pitchKey(chordClass.intervals)}
                 \cup Range(chordClass.abbrs)) \ {<<>>}
  IN [key \in (DOMAIN map) \cup keys |-> IF key \in keys THEN ref ELSE map[key]]

ChordClass_fromString(map, name) ==
  IF name \in DOMAIN map THEN chordClassArray[map[name]]
  ELSE Err("unknown chord name")

\* the fingerprint of an interval set: its semitones normalized, in ascending order
fingerprint(intervals) ==
  pitchKey(SortSeq([i \in 1..Len(intervals) |-> normalize(intervals[i])],
                   LAMBDA a, b : a < b))

ChordClass_fromIntervals(map, intervals) ==
  IF fingerprint(intervals) \in DOMAIN map
    THEN chordClassArray[map[fingerprint(intervals)]]
  ELSE Err("no matching chord class")

(***************************************************************************)
(* chord.ts: Chord.                                                        *)
(***************************************************************************)
\* s.replace(/\s+$/, '')
trimEnd(s) ==
  LET keep == {i \in 0..Len(s) : \A j \in (i+1)..Len(s) : s[j] = " "}
  IN SubSeq(s, 1, CHOOSE i \in keep : \A j \in keep : i <= j)

toString(p) == p.name

Chord_intervalsOnly(chordClass, root, inversion) ==
  LET abbrs == [i \in 1..Len(chordClass.abbrs) |->
                  trimEnd(toString(root) \o <<" ">> \o chordClass.abbrs[i])]
      intervals == chordClass.intervals
      pitches == [i \in 1..Len(chordClass.intervals) |->
                    transposeBy(root, chordClass.intervals[i])]
  IN [kind |-> "Chord", chordClass |-> chordClass, root |-> root,
      inversion |-> inversion, abbrs |-> abbrs, abbr |-> abbrs[1],
      intervals |-> IF inversion # 0 THEN rotateArray(intervals, inversion) ELSE intervals,
      pitches |-> pitches]

Chord_rotateTwice(chordClass, root, inversion) ==
  LET abbrs == [i \in 1..Len(chordClass.abbrs) |->
                  trimEnd(toString(root) \o <<" ">> \o chordClass.abbrs[i])]
      intervals == IF inversion # 0 THEN rotateArray(chordClass.intervals, inversion)
                   ELSE chordClass.intervals
      pitches == [i \in 1..Len(intervals) |-> transposeBy(root, intervals[i])]
  IN [kind |-> "Chord", chordClass |-> chordClass, root |-> root,
      inversion |-> inversion, abbrs |-> abbrs, abbr |-> abbrs[1],
      intervals |-> intervals,
      pitches |-> IF inversion # 0 THEN rotateArray(pitches, inversion) ELSE pitches]

\* new Chord(chordClass, root, inversion)
Chord(chordClass, root, inversion) ==
  LET abbrs == [i \in 1..Len(chordClass.abbrs) |->
                  trimEnd(toString(root) \o <<" ">> \o chordClass.abbrs[i])]
      intervals == chordClass.intervals
      pitches == [i \in 1..Len(chordClass.intervals) |->
                    transposeBy(root, chordClass.intervals[i])]
  IN [kind |-> "Chord", chordClass |-> chordClass, root |-> root,
      inversion |-> inversion, abbrs |-> abbrs, abbr |-> abbrs[1],
      intervals |-> IF inversion # 0 THEN rotateArray(intervals, inversion) ELSE intervals,
      pitches |-> IF inversion # 0 THEN rotateArray(pitches, inversion) ELSE pitches]

\* chordClass.at(root)
ChordClass_at(chordClass, root) == Chord(chordClass, root, 0)

Chord_name(chord) == toString(chord.root) \o <<" ">> \o chord.chordClass.name

Chord_fullName(chord) == toString(chord.root) \o <<" ">> \o chord.chordClass.fullName

\* the match of chordNameRegex: the ends of the root and of the white space
Chord_fromString(map, name) ==
  IF Len(name) = 0 \/ name[1] \notin NaturalLetters
    THEN Err("is not a chord name")
  ELSE
    LET c == SpanEnd(name, 2, {","})
        a == SpanEnd(name, c, {"'"})
        x == SpanEnd(name, a, {"#", "b", "sharp", "flat", "dsharp", "dflat"})
        d == SpanEnd(name, x, DigitChars)
        w == SpanEnd(name, d, {" "})
        rootName == SubSeq(name, 1, d - 1)
        className == SubSeq(name, w, Len(name))
        chordClass == ChordClass_fromString(map, IF className # <<>> THEN className ELSE Major)
    IN IF IsErr(chordClass) THEN chordClass
       ELSE IF rootName # <<>>
         THEN LET root == Pitch_fromString(rootName)
              IN IF IsErr(root) THEN root ELSE ChordClass_at(chordClass, root)
       ELSE chordClass

Chord_fromPitches_fromLast(map, pitches) ==
  LET root == pitches[1]
      intervals == [i \in 1..Len(pitches) |-> Interval_between(pitches[Len(pitches)], pitches[i])]
      chordClass == ChordClass_fromIntervals(map, intervals)
  IN IF IsErr(chordClass) THEN chordClass ELSE ChordClass_at(chordClass, root)

Chord_fromPitches(map, pitches) ==
  LET root == pitches[1]
      intervals == [i \in 1..Len(pitches) |-> Interval_between(root, pitches[i])]
      chordClass == ChordClass_fromIntervals(map, intervals)
  IN IF IsErr(chordClass) THEN chordClass ELSE ChordClass_at(chordClass, root)

Chord_invert_anyLetter(chord, inversionKey) ==
  IF inversionKey.kind = "string"
    THEN Chord(chord.chordClass, chord.root, 1 + indexOf(inversionNames, inversionKey.value))
  ELSE Chord(chord.chordClass, chord.root, inversionKey.value)

\* chord.invert(inversionKey), the key a Num or a Str
Chord_invert(chord, inversionKey) ==
  IF inversionKey.kind = "string"
    THEN LET i == indexOf(inversionNames, inversionKey.value)
         IN IF i < 0 THEN Err("Unknown inversion")
            ELSE Chord(chord.chordClass, chord.root, 1 + i)
  ELSE Chord(chord.chordClass, chord.root, inversionKey.value)

(***************************************************************************)
(* Scale, Key and the scale table.  A Scale object carries its identity    *)
(* id: <<i, 0>> for the i-th scale of scaleMap and <<i, j>> for its j-th   *)
(* mode.  A parent is the identity of the parent object, <<>> for null;    *)
(* an absent option of the constructor is <<>> as well.                    *)
(***************************************************************************)
diatonicMajorScaleName == <<"D","i","a","t","o","n","i","c"," ","M","a","j","o","r">>

defaultScaleName == diatonicMajorScaleName

scaleMap ==
  <<
    [name |-> <<"D","i","a","t","o","n","i","c"," ","M","a","j","o","r">>,
     parent |-> <<>>,
     pitchClasses |-> <<0, 2, 4, 5, 7, 9, 11>>,
     modeNames |-> <<<<"I","o","n","i","a","n">>,
                     <<"D","o","r","i","a","n">>,
                     <<"P","h","r","y","g","i","a","n">>,
                     <<"L","y","d","i","a","n">>,
                     <<"M","i","x","o","l","y","d","i","a","n">>,
                     <<"A","e","o","l","i","a","n">>,
                     <<"L","o","c","r","i","a","n">>>>],
    [name |-> <<"N","a","t","u","r","a","l"," ","M","i","n","o","r">>,
     parent |-> <<"D","i","a","t","o","n","i","c"," ","M","a","j","o","r">>,
     pitchClasses |-> <<0, 2, 3, 5, 7, 8, 10>>,
     modeNames |-> <<>>],
    [name |-> <<"M","a","j","o","r"," ","P","e","n","t","a","t","o","n","i","c">>,
     parent |-> <<>>,
     pitchClasses |-> <<0, 2, 4, 7, 9>>,
     modeNames |-> <<<<"M","a","j","o","r"," ","P","e","n","t","a","t","o","n","i","c">>,
                     <<"S","u","s","p","e","n","d","e","d"," ","P","e","n","t","a","t","o","n","i","c">>,
                     <<"M","a","n"," ","G","o","n","g">>,
                     <<"R","i","t","u","s","e","n">>,
                     <<"M","i","n","o","r"," ","P","e","n","t","a","t","o","n","i","c">>>>],
    [name |-> <<"M","i","n","o","r"," ","P","e","n","t","a","t","o","n","i","c">>,
     parent |-> <<"M","a","j","o","r"," ","P","e","n","t","a","t","o","n","i","c">>,
     pitchClasses |-> <<0, 3, 5, 7, 10>>,
     modeNames |-> <<>>],
    [name |-> <<"M","e","l","o","d","i","c"," ","M","i","n","o","r">>,
     parent |-> <<>>,
     pitchClasses |-> <<0, 2, 3, 5, 7, 9, 11>>,
     modeNames |-> <<<<"J","a","z","z"," ","M","i","n","o","r">>,
                     <<"D","o","r","i","a","n"," ","b","2">>,
                     <<"L","y","d","i","a","n"," ","A","u","g","m","e","n","t","e","d">>,
                     <<"L","y","d","i","a","n"," ","D","o","m","i","n","a","n","t">>,
                     <<"M","i","x","o","l","y","d","i","a","n"," ","b","6">>,
                     <<"S","e","m","i","l","o","c","r","i","a","n">>,
                     <<"S","u","p","e","r","l","o","c","r","i","a","n">>>>],
    [name |-> <<"H","a","r","m","o","n","i","c"," ","M","i","n","o","r">>,
     parent |-> <<>>,
     pitchClasses |-> <<0, 2, 3, 5, 7, 8, 11>>,
     modeNames |-> <<<<"H","a","r","m","o","n","i","c"," ","M","i","n","o","r">>,
                     <<"L","o","c","r","i","a","n"," ","#","6">>,
                     <<"I","o","n","i","a","n"," ","A","u","g","m","e","n","t","e","d">>,
                     <<"R","o","m","a","n","i","a","n">>,
                     <<"P","h","r","y","g","i","a","n"," ","D","o","m","i","n","a","n","t">>,
                     <<"L","y","d","i","a","n"," ","#","2">>,
                     <<"U","l","t","r","a","l","o","c","r","i","a","n">>>>],
    [name |-> <<"B","l","u","e","s">>,
     parent |-> <<>>,
     pitchClasses |-> <<0, 3, 5, 6, 7, 10>>,
     modeNames |-> <<>>],
    [name |-> <<"F","r","e","y","g","i","s","h">>,
     parent |-> <<>>,
     pitchClasses |-> <<0, 1, 4, 5, 7, 8, 10>>,
     modeNames |-> <<>>],
    [name |-> <<"W","h","o","l","e"," ","T","o","n","e">>,
     parent |-> <<>>,
     pitchClasses |-> <<0, 2, 4, 6, 8, 10>>,
     modeNames |-> <<>>],
    [name |-> <<"O","c","t","a","t","o","n","i","c">>,
     parent |-> <<>>,
     pitchClasses |-> <<0, 2, 3, 5, 6, 8, 9, 11>>,
     modeNames |-> <<>>]
  >>

rotatePitchClasses_noNormalize(pitchClasses, i) ==
  LET k == i % Len(pitchClasses)
      rotated == SubSeq(pitchClasses, k + 1, Len(pitchClasses)) \o SubSeq(pitchClasses, 1, k)
  IN [j \in 1..Len(rotated) |-> JsSub(rotated[j], rotated[1])]

rotatePitchClasses(pitchClasses, i) ==
  LET k == i % Len(pitchClasses)
      rotated == SubSeq(pitchClasses, k + 1, Len(pitchClasses)) \o SubSeq(pitchClasses, 1, k)
  IN [j \in 1..Len(rotated) |-> normalize(JsSub(rotated[j], rotated[1]))]

Scale_fromString(registry, name) ==
  IF name \in DOMAIN registry THEN registry[name] ELSE Err("No scale named")

Scale_addScale_withModes(registry, scale) ==
  LET added == [j \in 1..(1 + Len(scale.modes)) |->
                  IF j = 1 THEN scale ELSE scale.modes[j - 1]]
  IN [n \in (DOMAIN registry) \cup {added[j].name : j \in DOMAIN added} |->
        IF \E j \in DOMAIN added : added[j].name = n
          THEN added[CHOOSE j \in DOMAIN added : added[j].name = n]
        ELSE registry[n]]

Scale_addScale(registry, scale) ==
  [n \in (DOMAIN registry) \cup {scale.name} |->
     IF n = scale.name THEN scale ELSE registry[n]]

\* the Scale that the constructor builds for one mode
modeScale(modeName, id, parentId, pitchClasses) ==
  [kind |-> "Scale", id |-> id, name |-> modeName, parent |-> parentId,
   pitchClasses |-> pitchClasses,
   intervals |-> [k \in 1..Len(pitchClasses) |-> Interval_fromSemitones(pitchClasses[k])],
   modes |-> <<>>]

GenericScale_dropLastMode(registry, options, id) ==
  LET parent == IF options.parent # <<>> THEN Scale_fromString(registry, options.parent)
                ELSE [kind |-> "null", id |-> <<>>]
  IN IF IsErr(parent) THEN parent
     ELSE [kind |-> "Scale", id |-> id, name |-> options.name, parent |-> parent.id,
           pitchClasses |-> options.pitchClasses,
           intervals |-> [k \in 1..Len(options.pitchClasses) |->
                            Interval_fromSemitones(options.pitchClasses[k])],
           modes |-> [j \in 1..(Len(options.modeNames) - 1) |->
                        modeScale(options.modeNames[j], <<id[1], j>>, id,
                                  rotatePitchClasses(options.pitchClasses, j - 1))]]

\* new Scale(options), the object having the identity id
GenericScale(registry, options, id) ==
  LET parent == IF options.parent # <<>> THEN Scale_fromString(registry, options.parent)
                ELSE [kind |-> "null", id |-> <<>>]
  IN IF IsErr(parent) THEN parent
     ELSE [kind |-> "Scale", id |-> id, name |-> options.name, parent |-> parent.id,
           pitchClasses |-> options.pitchClasses,
           intervals |-> [k \in 1..Len(options.pitchClasses) |->
                            Interval_fromSemitones(options.pitchClasses[k])],
           modes |-> [j \in 1..Len(options.modeNames) |->
                        modeScale(options.modeNames[j], <<id[1], j>>, id,
                                  rotatePitchClasses(options.pitchClasses, j - 1))]]

\* new Key({name, pitchClasses, tonic}): no parent and no mode names are passed on
Key(name, pitchClasses, tonic) ==
  LET intervals == [k \in 1..Len(pitchClasses) |-> Interval_fromSemitones(pitchClasses[k])]
  IN [kind |-> "Key", name |-> name, parent |-> <<>>, pitchClasses |-> pitchClasses,
      intervals |-> intervals, modes |-> <<>>, tonic |-> tonic,
      notes |-> [k \in 1..Len(intervals) |-> transposeBy(tonic, intervals[k])]]

\* scale.at(tonic)
Scale_at(scale, tonic) ==
  LET pitchLike == asPitchLike(tonic)
  IN IF IsErr(pitchLike) THEN pitchLike
     ELSE Key(scale.name, scale.pitchClasses, pitchLike)

\* Key.fromString(name); the match of its pattern gives the ends of the tonic and of
\* the white space
Key_fromString(registry, name) ==
  IF Len(name) = 0 \/ name[1] \notin NaturalLetters
    THEN Err("No scale named")
  ELSE
    LET x == SpanEnd(name, 2, {"#", "b", "sharp", "flat", "dsharp", "dflat"})
        d == SpanEnd(name, x, DigitChars)
        w == SpanEnd(name, d, {" "})
        tonicName == SubSeq(name, 1, d - 1)
        scaleName == SubSeq(name, w, Len(name))
        scale == Scale_fromString(registry,
                   IF scaleName # <<>> THEN scaleName ELSE defaultScaleName)
    IN IF IsErr(scale) THEN scale ELSE Scale_at(scale, Str(tonicName))

\* the first error of an array of results, or the array when there is none
AllOrFirstError(results, kind) ==
  IF \E i \in 1..Len(results) : IsErr(results[i])
    THEN results[CHOOSE i \in 1..Len(results) :
                   IsErr(results[i]) /\ \A j \in 1..(i-1) : ~IsErr(results[j])]
  ELSE [kind |-> kind, value |-> results]

Key_chords_adjacent(map, key, sevenths) ==
  LET tonic == key.tonic
      degrees == IF sevenths THEN <<0, 1, 2, 3>> ELSE <<0, 1, 2>>
      pitches == key.pitchClasses
      chordAt(i) ==
        LET modePitches == SubSeq(pitches, i + 1, Len(pitches)) \o SubSeq(pitches, 1, i)
            chordPitches == [d \in 1..Len(degrees) |->
                               transposeBy(tonic, Interval_fromSemitones(
                                 IF degrees[d] < Len(modePitches)
                                   THEN modePitches[degrees[d] + 1] ELSE NaN))]
        IN Chord_fromPitches(map, chordPitches)
  IN AllOrFirstError([i \in 1..Len(pitches) |-> chordAt(i - 1)], "Chords")

\* key.chords({sevenths})
Key_chords(map, key, sevenths) ==
  LET tonic == key.tonic
      degrees == IF sevenths THEN <<0, 2, 4, 6>> ELSE <<0, 2, 4>>
      pitches == key.pitchClasses
      chordAt(i) ==
        LET modePitches == SubSeq(pitches, i + 1, Len(pitches)) \o SubSeq(pitches, 1, i)
            chordPitches == [d \in 1..Len(degrees) |->
                               transposeBy(tonic, Interval_fromSemitones(
                                 IF degrees[d] < Len(modePitches)
                                   THEN modePitches[degrees[d] + 1] ELSE NaN))]
        IN Chord_fromPitches(map, chordPitches)
  IN AllOrFirstError([i \in 1..Len(pitches) |-> chordAt(i - 1)], "Chords")

(***************************************************************************)
(* The roman-numeral resolver.                                             *)
(***************************************************************************)
chordRomanNumerals ==
  << <<"I">>, <<"I","I">>, <<"I","I","I">>, <<"I","V">>, <<"V">>, <<"V","I">>,
     <<"V","I","I">> >>

\* romanNumeralModifiers[modifiers], <<>> for undefined
romanNumeralModifiers(modifiers) ==
  CASE modifiers = <<"+">> -> <<"a","u","g">>
    [] modifiers = <<"deg">> -> <<"d","i","m">>
    [] modifiers = <<"6">> -> <<"m","a","j","6">>
    [] modifiers = <<"7">> -> <<"d","o","m","7">>
    [] modifiers = <<"+","7">> -> <<"+","7">>
    [] modifiers = <<"deg","7">> -> <<"deg","7">>
    [] modifiers = <<"oslash","7">> -> <<"oslash","7">>
    [] OTHER -> <<>>

\* the chord type the case of the numeral gives, or the error of a mixed case
chordTypeOfCase_lenient(romanNumeral) ==
  IF romanNumeral = toLowerCase(romanNumeral) THEN Str(Minor) ELSE Str(Major)

chordTypeOfCase(romanNumeral) ==
  IF romanNumeral = toUpperCase(romanNumeral) THEN Str(Major)
  ELSE IF romanNumeral = toLowerCase(romanNumeral) THEN Str(Minor)
  ELSE Err("Roman numeral chords can't be mixed case")

chordFromRomanNumeral(map, name, scale) ==
  LET f == IF Len(name) > 0 /\ name[1] = "flat" THEN 2 ELSE 1
      \* (i+v?|vi*) under the i flag; r is where the numeral ends, 0 without a match
      r == IF f <= Len(name) /\ name[f] \in {"i", "I"}
             THEN LET e == SpanEnd(name, f, {"i", "I"})
                  IN IF e <= Len(name) /\ name[e] \in {"v", "V"} THEN e + 1 ELSE e
           ELSE IF f <= Len(name) /\ name[f] \in {"v", "V"}
             THEN SpanEnd(name, f + 1, {"i", "I"})
           ELSE 0
  IN IF r = 0 THEN Err("is not a chord roman numeral")
     ELSE IF "tonic" \notin DOMAIN scale THEN Err("requires a scale with a tonic")
     ELSE
       LET accidental == SubSeq(name, 1, f - 1)
           romanNumeral == SubSeq(name, f, r - 1)
           \* (.*?)([acd]?)$ under the i flag
           hasInversion == r <= Len(name) /\ name[Len(name)] \in {"a","c","d","A","C","D"}
           modifiers == SubSeq(name, r, IF hasInversion THEN Len(name) - 1 ELSE Len(name))
           inversion == IF hasInversion THEN <<name[Len(name)]>> ELSE <<>>
           degree == indexOf(chordRomanNumerals, toUpperCase(romanNumeral))
           caseType == chordTypeOfCase(romanNumeral)
           chordType == IF modifiers # <<>> THEN romanNumeralModifiers(modifiers)
                        ELSE caseType.value
       IN IF ~(degree >= 0) THEN Err("Not a chord name")
          ELSE IF IsErr(caseType) THEN caseType
          ELSE IF modifiers # <<>> /\ chordType = <<>> THEN Err("unknown chord modifier")
          ELSE
            LET chordClass == ChordClass_fromString(map, chordType)
            IN IF IsErr(chordClass) THEN chordClass
               \* scale.pitches![degree]: the property read of the object scale
               ELSE IF "pitches" \notin DOMAIN scale
                 THEN Err("TypeError: cannot read a property of undefined")
               ELSE
                 LET chord == ChordClass_at(chordClass, scale.pitches[degree + 1])
                 IN IF inversion # <<>> THEN Chord_invert(chord, Str(inversion)) ELSE chord

Key_fromRomanNumeral(map, key, name) == chordFromRomanNumeral(map, name, key)

\* [\s+\-]
ProgressionSeparators == {" ", "+", "-"}

RECURSIVE split(_, _)
\* s.split(/[...]+/) for the characters seps of the class
split(s, seps) ==
  LET hits == {i \in 1..Len(s) : s[i] \in seps}
  IN IF hits = {} THEN <<s>>
     ELSE LET i == CHOOSE h \in hits : \A g \in hits : h <= g
              e == SpanEnd(s, i, seps)
          IN <<SubSeq(s, 1, i - 1)>> \o split(SubSeq(s, e, Len(s)), seps)

\* key.progression(names)
Key_progression(map, key, names) ==
  LET tokens == split(names, ProgressionSeparators)
  IN AllOrFirstError([i \in 1..Len(tokens) |-> Key_fromRomanNumeral(map, key, tokens[i])],
                     "Chords")

(***************************************************************************)
(* The inputs a caller draws its arguments from.                           *)
(***************************************************************************)
MidiNumbers == (0 - MaxBelow)..MaxMidi

NormalizeInputs == (0 - MaxNorm)..MaxNorm

\* names for the pitch parsers: a letter, at most one accidental, an octave part
PitchNameInputs ==
  {l \o a \o o :
     l \in {<<"C">>, <<"e">>, <<"B">>, <<"b">>, <<"H">>},
     a \in {<<>>, <<"#">>, <<"b">>, <<"sharp">>, <<"dflat">>, <<"B">>},
     o \in {<<>>, <<"0">>, <<"4">>, <<"1","0">>, <<"-","1">>, <<",">>, <<"'">>}}

ChordNameInputs ==
  { <<"E"," ","M","a","j","o","r">>, <<"M","a","j","o","r">>, <<"D","i","m">>,
    <<"d","o","m","7">>, <<"a","u","g">>, <<"E">>, <<"E","m">>, <<"m">>,
    <<"E","7"," ","M","a","j","o","r">>, <<"E","b"," ","d","i","m">>,
    <<"C","sharp","4","m","a","j","7">>, <<"E"," ","b","l","a">>,
    <<"M","i","n","o","r">>, <<"A"," ","D","i","m">>, <<"s","u","s","4">>, <<>> }

ChordClassNameInputs ==
  {chordClassArray[i].name : i \in 1..Len(chordClassArray)}
    \cup { <<"d","o","m","7">>, <<"oslash","7">>, <<"n","o","n","e">> }

\* roots and tonics: every pitch class, and the pitches of two octaves' ends
PitchLikeInputs ==
  {PitchClass_fromSemitones(n) : n \in 0..11}
    \cup {Pitch_fromMidiNumber(n) : n \in {0, 64}}

\* roots for the Chord constructor: a pitch class and a pitch
ChordRootInputs == {PitchClass_fromSemitones(4), Pitch_fromMidiNumber(64)}

\* pitch lists for Chord.fromPitches: a root and the pitches above it
PitchesInputs ==
  {[i \in 1..Len(shape) |-> transposeBy(root, shape[i])] :
     root \in ChordRootInputs,
     shape \in { <<0, 4, 7>>, <<0, 3, 7>>, <<0, 4, 7, 10>>, <<0, 1, 2>> }}

InversionNumbers == -1..MaxInversion

InversionLetters == { <<"a">>, <<"b">>, <<"c">>, <<"d">> }

ScaleNameInputs ==
  {scaleMap[i].name : i \in 1..Len(scaleMap)}
    \cup { <<"I","o","n","i","a","n">>, <<"U","n","k","n","o","w","n">> }

\* the numerals of the tokens: the seven in each case, mixed cases, and two that
\* are no numeral
NumeralInputs ==
  {chordRomanNumerals[k] : k \in 1..7}
    \cup {toLowerCase(chordRomanNumerals[k]) : k \in 1..7}
    \cup { <<"I","v">>, <<"v","I","I">>, <<"i","I">>, <<"V","i">>,
           <<"I","I","I","I">>, <<"x">> }

\* the suffixes of the modifier table
TableModifiers ==
  { <<"+">>, <<"deg">>, <<"6">>, <<"7">>, <<"+","7">>, <<"deg","7">>, <<"oslash","7">> }

RomanNumeralInputs ==
  {n \o m \o i :
     n \in NumeralInputs,
     m \in {<<>>, <<"7">>, <<"oslash","7">>, <<"x">>},
     i \in {<<>>, <<"a">>}}
    \cup {<<"flat">> \o n : n \in NumeralInputs}
    \cup {n \o m : n \in { <<"V">>, <<"i","i">> }, m \in TableModifiers}

\* names for PitchClass.fromString: a letter, or none, and what follows it
PitchClassNameInputs ==
  {l \o a :
     l \in {<<>>, <<"C">>, <<"e">>, <<"B">>, <<"g">>, <<"H">>},
     a \in {<<>>, <<"#">>, <<"b">>, <<"B">>, <<"sharp">>, <<"flat">>, <<"dsharp">>,
            <<"dflat">>, <<"b","b">>, <<"#","dflat">>, <<"flat","B">>, <<"x">>,
            <<"4">>, <<"#"," ">>}}

\* names for the Helmholtz parser: a letter, accidentals, commas, apostrophes
HelmholtzInputs ==
  {l \o a \o c \o q :
     l \in {<<"C">>, <<"c">>, <<"E">>, <<"e">>},
     a \in {<<>>, <<"#">>, <<"b">>, <<"flat">>, <<"b","b">>, <<"dsharp">>},
     c \in {<<>>, <<",">>, <<",",",">>},
     q \in {<<>>, <<"'">>, <<"'","'">>}}

\* names for Key.fromString: a tonic, white space, the name of a scale
KeyNameInputs ==
  { <<"E"," ">> \o diatonicMajorScaleName, <<"E">>, <<"G","4">>,
    <<"E","b"," ","N","a","t","u","r","a","l"," ","M","i","n","o","r">>,
    <<"c","sharp"," "," ","B","l","u","e","s">>,
    <<"H"," ">> \o diatonicMajorScaleName, diatonicMajorScaleName,
    <<"E"," ","U","n","k","n","o","w","n">>, <<"C"," ","I","o","n","i","a","n">>,
    <<>> }

\* texts for Key.progression
ProgressionInputs ==
  { <<"I">>, <<"V">>, <<"v","i">>, <<"V","7">>, <<"V","+">>, <<"V","+","7">>,
    <<"i","i","oslash","7">>, <<"I"," ","I","V"," ","V">>, <<"I","-","I","V","-","V">>,
    <<"i","i","+","V">>, <<"i","i"," "," ","V","7"," ","-"," ","I">>,
    <<"I"," ","I","v">>, <<"I"," ","x">>, <<" ","I">>, <<"I"," ">>, <<>> }

(***************************************************************************)
(* The state: the two registries, the position of the start-up code, and   *)
(* the calls of the caller's current expression, each with its arguments   *)
(* and its result; a later call of the expression is made on the result of *)
(* the call before it.                                                     *)
(***************************************************************************)
VARIABLES pc, ix, chordMap, instances, calls

vars == <<pc, ix, chordMap, instances, calls>>

Init ==
  /\ pc = "loadChords"
  /\ ix = 0
  /\ chordMap = [key \in {} |-> 0]
  /\ instances = [name \in {} |-> 0]
  /\ calls = <<>>

\* the value the caller holds: the result of the last call
held == calls[Len(calls)].ret

Call(op, arg, ret) == [op |-> op, arg |-> arg, ret |-> ret]

\* a call that starts an expression
Fresh(op, arg, ret) ==
  /\ pc = "idle"
  /\ pc' = "returned"
  /\ calls' = <<Call(op, arg, ret)>>
  /\ UNCHANGED <<ix, chordMap, instances>>

\* a call on, or of, the value held, which is of the kind given
Chained(kind, op, arg, ret) ==
  /\ pc = "returned"
  /\ Len(calls) < MaxChain
  /\ held.kind = kind
  /\ calls' = Append(calls, Call(op, arg, ret))
  /\ UNCHANGED <<pc, ix, chordMap, instances>>

\* chordClassArray.forEach(ChordClassAccessor.addChord), one chord class a step
LoadChordClass ==
  /\ pc = "loadChords"
  /\ chordMap' = addChord(chordMap, ix + 1)
  /\ ix' = IF ix + 1 = Len(chordClassArray) THEN 0 ELSE ix + 1
  /\ pc' = IF ix + 1 = Len(chordClassArray) THEN "loadScales" ELSE pc
  /\ UNCHANGED <<instances, calls>>

LoadScale_lastFirst ==
  /\ pc = "loadScales"
  /\ LET k == Len(scaleMap) - ix
         scale == GenericScale(instances, scaleMap[k], <<k, 0>>)
     IN IF IsErr(scale)
          THEN /\ pc' = "failed"
               /\ calls' = <<Call("new Scale", scaleMap[k].name, scale)>>
               /\ UNCHANGED <<ix, instances>>
          ELSE /\ instances' = Scale_addScale(instances, scale)
               /\ ix' = ix + 1
               /\ pc' = IF ix + 1 = Len(scaleMap) THEN "idle" ELSE pc
               /\ UNCHANGED calls
  /\ UNCHANGED chordMap

\* scaleMap.forEach((options) => Scale.addScale(new Scale(options))), one scale a step
LoadScale ==
  /\ pc = "loadScales"
  /\ LET scale == GenericScale(instances, scaleMap[ix + 1], <<ix + 1, 0>>)
     IN IF IsErr(scale)
          THEN /\ pc' = "failed"
               /\ calls' = <<Call("new Scale", scaleMap[ix + 1].name, scale)>>
               /\ UNCHANGED <<ix, instances>>
          ELSE /\ instances' = Scale_addScale(instances, scale)
               /\ ix' = ix + 1
               /\ pc' = IF ix + 1 = Len(scaleMap) THEN "idle" ELSE pc
               /\ UNCHANGED calls
  /\ UNCHANGED chordMap

\* the caller drops the value it holds
Return ==
  /\ pc = "returned"
  /\ pc' = "idle"
  /\ calls' = <<>>
  /\ UNCHANGED <<ix, chordMap, instances>>

Normalize ==
  \E x \in NormalizeInputs : Fresh("normalize", x, Num(normalize(x)))

NormalizePitchClass ==
  \E x \in NormalizeInputs : Fresh("normalizePitchClass", x, Num(normalizePitchClass(x)))

ToScientificNotation ==
  \E n \in MidiNumbers : Fresh("toScientificNotation", n, Str(toScientificNotation(n)))

FromScientificNotation ==
  \E name \in PitchNameInputs :
    Fresh("fromScientificNotation", name, fromScientificNotation(name))

\* fromScientificNotation(s) of the string s held
ReparseScientificNotation ==
  Chained("string", "fromScientificNotation", held.value, fromScientificNotation(held.value))

PitchFromMidiNumber ==
  \E n \in MidiNumbers : Fresh("Pitch.fromMidiNumber", n, Pitch_fromMidiNumber(n))

PitchFromString ==
  \E name \in PitchNameInputs : Fresh("Pitch.fromString", name, Pitch_fromString(name))

PitchToString ==
  Chained("Pitch", "toString", <<>>, Str(Pitch_toString(held)))

\* Pitch.fromString(s) of the string s held
ReparsePitch ==
  Chained("string", "Pitch.fromString", held.value, Pitch_fromString(held.value))

ChordFromString ==
  \E name \in ChordNameInputs :
    Fresh("Chord.fromString", name, Chord_fromString(chordMap, name))

ChordClassFromString ==
  \E name \in ChordClassNameInputs :
    Fresh("ChordClass.fromString", name, ChordClass_fromString(chordMap, name))

ChordClassAt ==
  \E root \in PitchLikeInputs :
    Chained("ChordClass", "at", root, ChordClass_at(held, root))

NewChord ==
  \E ref \in {1, 7}, root \in ChordRootInputs, inversion \in InversionNumbers :
    Fresh("new Chord", [chordClass |-> chordClassArray[ref], root |-> root,
                        inversion |-> inversion],
          Chord(chordClassArray[ref], root, inversion))

ChordFromPitches ==
  \E pitches \in PitchesInputs :
    Fresh("Chord.fromPitches", pitches, Chord_fromPitches(chordMap, pitches))

\* chord.invert(k) of a number k
ChordInvertNumber ==
  \E k \in InversionNumbers :
    Chained("Chord", "invert", Num(k), Chord_invert(held, Num(k)))

\* chord.invert(s) of a string s
ChordInvertLetter ==
  \E s \in InversionLetters :
    Chained("Chord", "invert", Str(s), Chord_invert(held, Str(s)))

ScaleFromString ==
  \E name \in ScaleNameInputs :
    Fresh("Scale.fromString", name, Scale_fromString(instances, name))

ScaleAt ==
  \E tonic \in PitchLikeInputs : Chained("Scale", "at", tonic, Scale_at(held, tonic))

KeyFromString ==
  \E name \in KeyNameInputs :
    Fresh("Key.fromString", name, Key_fromString(instances, name))

KeyProgression ==
  \E names \in ProgressionInputs :
    Chained("Key", "progression", names, Key_progression(chordMap, held, names))

\* PitchClass.fromString(name), normalizing
PitchClassFromString ==
  \E name \in PitchClassNameInputs :
    Fresh("PitchClass.fromString", name, fromString(name, TRUE))

FromHelmholtzNotation ==
  \E name \in HelmholtzInputs :
    Fresh("fromHelmholtzNotation", name, fromHelmholtzNotation(name))

\* rotatePitchClasses(pitchClasses, i) of the pitch classes of a scale of the table
RotatePitchClasses ==
  \E k \in 1..Len(scaleMap) :
    \E i \in 0..(Len(scaleMap[k].pitchClasses) - 1) :
      Fresh("rotatePitchClasses", [pitchClasses |-> scaleMap[k].pitchClasses, i |-> i],
            [kind |-> "pitchClasses",
             value |-> rotatePitchClasses(scaleMap[k].pitchClasses, i)])

KeyChords ==
  \E sevenths \in BOOLEAN :
    Chained("Key", "chords", sevenths, Key_chords(chordMap, held, sevenths))

KeyFromRomanNumeral ==
  \E name \in RomanNumeralInputs :
    Chained("Key", "fromRomanNumeral", name, Key_fromRomanNumeral(chordMap, held, name))

Next ==
  \/ LoadChordClass
  \/ LoadScale
  \/ Return
  \/ Normalize
  \/ NormalizePitchClass
  \/ ToScientificNotation
  \/ FromScientificNotation
  \/ ReparseScientificNotation
  \/ PitchFromMidiNumber
  \/ PitchFromString
  \/ PitchToString
  \/ ReparsePitch
  \/ ChordFromString
  \/ ChordClassFromString
  \/ ChordClassAt
  \/ NewChord
  \/ ChordFromPitches
  \/ ChordInvertNumber
  \/ ChordInvertLetter
  \/ ScaleFromString
  \/ ScaleAt
  \/ KeyChords
  \/ KeyFromRomanNumeral
  \/ KeyFromString
  \/ KeyProgression
  \/ PitchClassFromString
  \/ FromHelmholtzNotation
  \/ RotatePitchClasses

Spec == Init /\ [][Next]_vars

(***************************************************************************)
(* The properties.                                                         *)
(***************************************************************************)
last == calls[Len(calls)]

\* the value the last call was made on
receiver == calls[Len(calls) - 1].ret

\* the calls of the expression are those of ops, in order
Ops(ops) ==
  /\ pc = "returned"
  /\ Len(calls) = Len(ops)
  /\ \A i \in 1..Len(ops) : calls[i].op = ops[i]

LastOp(op) == pc = "returned" /\ last.op = op

EPitchClass == PitchClass_fromSemitones(4)

\* C1: for every n of the MIDI range 0..MaxMidi, the values below 12 included,
\* fromScientificNotation(toScientificNotation(n)) is n, and the Pitch made by
\* fromMidiNumber(n) parses from its toString() to a Pitch of midiNumber n.
C1_RoundTrip ==
  /\ (Ops(<<"toScientificNotation", "fromScientificNotation">>) /\ calls[1].arg \in 0..MaxMidi)
       => (calls[2].ret.kind = "number" /\ calls[2].ret.value = calls[1].arg)
  /\ (Ops(<<"Pitch.fromMidiNumber", "toString", "Pitch.fromString">>)
        /\ calls[1].arg \in 0..MaxMidi)
       => (calls[3].ret.kind = "Pitch" /\ calls[3].ret.midiNumber = calls[1].arg)

DiatonicMajorChordClasses ==
  << Major, Minor, Minor, Major, Major, Minor, <<"D","i","m">> >>

EMajorChordNames ==
  << <<"E"," ","M","a","j","o","r">>,
     <<"F","sharp"," ","M","i","n","o","r">>,
     <<"G","sharp"," ","M","i","n","o","r">>,
     <<"A"," ","M","a","j","o","r">>,
     <<"B"," ","M","a","j","o","r">>,
     <<"C","sharp"," ","M","i","n","o","r">>,
     <<"D","sharp"," ","D","i","m">> >>

DiatonicMajorChordsCall ==
  /\ Ops(<<"Scale.fromString", "at", "chords">>)
  /\ calls[1].arg = diatonicMajorScaleName
  /\ calls[3].arg = FALSE

\* C2: chords() of a Key of the Diatonic Major scale, at any tonic, returns seven
\* chords, the i-th rooted at the i-th note of the key, of the classes Major, Minor,
\* Minor, Major, Major, Minor, Dim; at the tonic E their names are E Major,
\* F-sharp Minor, G-sharp Minor, A Major, B Major, C-sharp Minor, D-sharp Dim.
C2_DiatonicMajorChords ==
  DiatonicMajorChordsCall =>
    /\ last.ret.kind = "Chords"
    /\ Len(last.ret.value) = 7
    /\ \A i \in 1..7 :
         /\ last.ret.value[i].kind = "Chord"
         /\ last.ret.value[i].root = receiver.notes[i]
         /\ last.ret.value[i].chordClass.name = DiatonicMajorChordClasses[i]
    /\ calls[2].arg = EPitchClass =>
         \A i \in 1..7 : Chord_name(last.ret.value[i]) = EMajorChordNames[i]

C2_Witness ==
  /\ DiatonicMajorChordsCall
  /\ calls[2].arg = EPitchClass
  /\ last.ret.kind = "Chords"
  /\ Chord_name(last.ret.value[7]) = <<"D","sharp"," ","D","i","m">>

\* the tokens that are a numeral of one case and nothing else
UniformNumerals ==
  {chordRomanNumerals[k] : k \in 1..7} \cup {toLowerCase(chordRomanNumerals[k]) : k \in 1..7}

\* C3: for a Key and a token that is a numeral of uniform case and of degree d in
\* 1..7, with no modifier, fromRomanNumeral returns the Major (upper case) or Minor
\* (lower case) chord at the d-th note of the key.
C3_RomanNumeralChord ==
  (Ops(<<"Scale.fromString", "at", "fromRomanNumeral">>) /\ last.arg \in UniformNumerals)
    => LET d == 1 + indexOf(chordRomanNumerals, toUpperCase(last.arg))
       IN /\ last.ret.kind = "Chord"
          /\ last.ret.root = receiver.notes[d]
          /\ last.ret.chordClass.name
               = (IF last.arg = toUpperCase(last.arg) THEN Major ELSE Minor)

\* the names and abbreviations of the built-in chord classes
ChordClassNames ==
  UNION {{chordClassArray[i].name, chordClassArray[i].fullName}
           \cup Range(chordClassArray[i].abbrs) : i \in 1..Len(chordClassArray)} \ {<<>>}

\* C4: Chord.fromString returns a Chord for a name with a root, such as "E Major",
\* and the chord class itself for a name that is only the name or an abbreviation of
\* a registered chord class, such as "Major", "Dim", "dom7" or "aug".
C4_ChordOrChordClass ==
  LastOp("Chord.fromString") =>
    /\ last.arg = <<"E"," ","M","a","j","o","r">> => last.ret.kind = "Chord"
    /\ last.arg \in ChordClassNames =>
         /\ last.ret.kind = "ChordClass"
         /\ last.ret = chordClassArray[chordMap[last.arg]]

\* a call of the Chord constructor or of invert
ChordConstruction == LastOp("new Chord") \/ LastOp("invert")

RotatedLeft(a, k) == [i \in 1..Len(a) |-> a[((i - 1 + k) % Len(a)) + 1]]

\* the number an inversion key stands for
InversionOf(key) ==
  IF key.kind = "number" THEN key.value
  ELSE CASE key.value = <<"a">> -> 1 [] key.value = <<"c">> -> 2
         [] key.value = <<"d">> -> 3 [] OTHER -> -1

\* C6: for a chord of m intervals, invert(m) has the intervals and the pitches in
\* the order of inversion 0, and invert(k), 0 < k < m, has the interval list of the
\* class and the pitches of the root position both rotated left by k; the letters
\* a, c, d stand for k = 1, 2, 3.
C6_InversionCycle ==
  (LastOp("invert") /\ Len(calls) > 1 /\ receiver.kind = "Chord") =>
    LET class == receiver.chordClass
        m == Len(class.intervals)
        k == InversionOf(last.arg)
        rootPosition == [i \in 1..m |-> transposeBy(receiver.root, class.intervals[i])]
    IN (k \in 1..m) =>
         /\ last.ret.kind = "Chord"
         /\ last.ret.intervals = RotatedLeft(class.intervals, IF k = m THEN 0 ELSE k)
         /\ last.ret.pitches = RotatedLeft(rootPosition, IF k = m THEN 0 ELSE k)

C6_Witness ==
  /\ LastOp("invert")
  /\ receiver.kind = "Chord"
  /\ receiver.inversion = 1
  /\ last.arg = Num(3)
  /\ last.ret.kind = "Chord"
  /\ last.ret.intervals = <<0, 4, 7>>

MixedCaseNumerals == { <<"I","v">>, <<"v","I","I">>, <<"i","I">>, <<"V","i">> }

\* the token starts, after a flat sign if it has one, with a numeral of mixed case
HasMixedCaseNumeral(name) ==
  LET body == IF Len(name) > 0 /\ name[1] = "flat" THEN Tail(name) ELSE name
  IN \E n \in MixedCaseNumerals :
       Len(body) >= Len(n) /\ SubSeq(body, 1, Len(n)) = n

\* C7: resolving a token whose numeral mixes upper and lower case fails with the
\* error of a mixed case and returns no chord, with or without a modifier or an
\* inversion letter after the numeral.
C7_MixedCaseFails ==
  (LastOp("fromRomanNumeral") /\ HasMixedCaseNumeral(last.arg))
    => last.ret = Err("Roman numeral chords can't be mixed case")

C7_Witness ==
  /\ LastOp("fromRomanNumeral")
  /\ last.arg = <<"I","v","7","a">>
  /\ IsErr(last.ret)

\* the scales registered so far that were given mode names
ScalesWithModeNames ==
  {name \in DOMAIN instances : scaleMap[instances[name].id[1]].modeNames # <<>>}

\* C8: a registered Scale that was given mode names and has p pitch classes has p
\* modes, each a Scale of p pitch classes whose parent is that scale; Diatonic
\* Major has the pitch classes 0, 2, 4, 5, 7, 9, 11 and seven modes.
C8_ModeCount ==
  /\ \A name \in ScalesWithModeNames :
       LET scale == instances[name]
           p == Len(scale.pitchClasses)
       IN /\ Len(scale.modes) = p
          /\ \A j \in 1..Len(scale.modes) :
               /\ scale.modes[j].kind = "Scale"
               /\ Len(scale.modes[j].pitchClasses) = p
               /\ scale.modes[j].parent = scale.id
  /\ pc \in {"idle", "returned"} =>
       /\ diatonicMajorScaleName \in DOMAIN instances
       /\ instances[diatonicMajorScaleName].pitchClasses = <<0, 2, 4, 5, 7, 9, 11>>
       /\ Len(instances[diatonicMajorScaleName].modes) = 7

C8_Witness ==
  /\ pc = "idle"
  /\ Cardinality(ScalesWithModeNames) = 4
  /\ Len(instances[diatonicMajorScaleName].modes) = 7

\* the number of chord classes registered so far
RegisteredChordClasses == IF pc = "loadChords" THEN ix ELSE Len(chordClassArray)

\* the fingerprint of each chord class of the built-in table
BuiltInFingerprints ==
  [i \in 1..Len(chordClassArray) |-> fingerprint(chordClassArray[i].intervals)]

\* C9: no two chord classes of the built-in table have the same fingerprint, the
\* sorted semitones modulo 12, and in the chord map the fingerprint of every
\* registered chord class is a key of that chord class.
C9_FingerprintsUnique ==
  /\ \A i, j \in 1..Len(chordClassArray) :
       i # j => BuiltInFingerprints[i] # BuiltInFingerprints[j]
  /\ \A i \in 1..RegisteredChordClasses :
       /\ BuiltInFingerprints[i] \in DOMAIN chordMap
       /\ chordMap[BuiltInFingerprints[i]] = i

C9_Witness ==
  /\ pc = "idle"
  /\ <<"0",",","4",",","7">> \in DOMAIN chordMap
  /\ chordMap[<<"0",",","4",",","7">>] = 1
  /\ chordMap[<<"0",",","4",",","7",",","1","0">>] = 7

\* C10: for every integer x, the negative ones included, normalize(x) is in 0..11,
\* is congruent to x modulo 12, and is left as it is by normalize.
C10_Normalize ==
  /\ LastOp("normalize") =>
       /\ last.ret.value \in 0..11
       /\ (last.ret.value - last.arg) % 12 = 0
       /\ normalize(last.ret.value) = last.ret.value
  /\ LastOp("normalizePitchClass") =>
       /\ last.ret.value \in 0..11
       /\ (last.ret.value - last.arg) % 12 = 0
       /\ normalizePitchClass(last.ret.value) = last.ret.value

C10_Witness ==
  /\ LastOp("normalize")
  /\ last.arg = -13
  /\ last.ret.value = 11

\* the chords a value holds: the value itself, or the chords of a chord list
ChordsOf(v) ==
  IF v.kind = "Chord" THEN {v}
  ELSE IF v.kind = "Chords" THEN Range(v.value)
  ELSE {}

\* the chords the calls of the current expression returned
ReturnedChords ==
  IF pc = "returned" THEN UNION {ChordsOf(calls[i].ret) : i \in 1..Len(calls)} ELSE {}

\* C11: every Chord returned by the constructor, by fromString, by fromPitches, by
\* chords() or by a sequence of invert calls has as many pitches as intervals, its
\* i-th pitch is the root transposed by its i-th interval, the first pitch included,
\* and its intervals are those of the chord class rotated left by the inversion.
C11_PitchesFollowIntervals ==
  \A c \in ReturnedChords :
    /\ Len(c.pitches) = Len(c.intervals)
    /\ \A i \in 1..Len(c.intervals) : c.pitches[i] = transposeBy(c.root, c.intervals[i])
    /\ c.intervals = RotatedLeft(c.chordClass.intervals, c.inversion)

C11_Witness ==
  /\ Ops(<<"Chord.fromPitches", "invert", "invert">>)
  /\ last.ret.kind = "Chord"
  /\ last.ret.inversion = 2
  /\ last.ret.intervals = <<7, 10, 0, 4>>
  /\ numeric(last.ret.pitches[1]) = 71

\* the names of the scales of the table, and the names of their modes
BuiltInScaleNames == {scaleMap[i].name : i \in 1..Len(scaleMap)}

BuiltInModeNames == UNION {Range(scaleMap[i].modeNames) : i \in 1..Len(scaleMap)}

\* the start-up code has run
StartedUp == pc \in {"idle", "returned"}

\* C12: once start-up is over, no call (Scale.fromString, at, Key.fromString,
\* chords, progression, fromRomanNumeral, Chord.fromString, Chord.fromPitches,
\* invert or any other) changes the Scale registry or the chord map; the Scale
\* registry holds the 10 scales of the table under their names and no mode (a
\* name that a mode shares with a scale of the table is that of the scale), and
\* Scale.fromString of a name that is not one of the 10 returns an error.
C12_RegistriesFrozen ==
  /\ [](StartedUp =>
         /\ DOMAIN instances = BuiltInScaleNames
         /\ Cardinality(DOMAIN instances) = 10
         /\ \A name \in DOMAIN instances :
              /\ instances[name].name = name
              /\ instances[name].id[2] = 0
         /\ (BuiltInModeNames \ BuiltInScaleNames) \cap DOMAIN instances = {}
         /\ (LastOp("Scale.fromString") /\ last.arg \notin BuiltInScaleNames)
              => IsErr(last.ret))
  /\ [][StartedUp => (instances' = instances /\ chordMap' = chordMap)]_vars

C12_Witness ==
  /\ LastOp("Scale.fromString")
  /\ last.arg = <<"I","o","n","i","a","n">>
  /\ last.ret = Err("No scale named")
  /\ Cardinality(DOMAIN instances) = 10

\* the accidental tokens and their values
AccidentalTokens == {"#", "sharp", "b", "flat", "dsharp", "dflat"}

\* a letter A-G of either case followed by accidental tokens only
IsPitchClassName(name) ==
  /\ Len(name) > 0
  /\ name[1] \in NaturalLetters
  /\ \A i \in 2..Len(name) : name[i] \in AccidentalTokens

RECURSIVE AccidentalSum(_)
AccidentalSum(accidentals) ==
  IF accidentals = <<>> THEN 0
  ELSE AccidentalValues(accidentals[1]) + AccidentalSum(Tail(accidentals))

\* the value of a pitch class name before it is normalized
UnnormalizedValue(name) ==
  indexOf(SharpNoteNames, toUpperCase(<<name[1]>>)) + AccidentalSum(Tail(name))

\* C13: PitchClass.fromString, normalizing, returns the parse error for a string
\* that is not a letter A-G of either case followed by accidental tokens, and for
\* every other string an integer of 0..11, the letter's index in the sharp table plus
\* the sum of the accidental values, modulo 12; it returns nothing else.
C13_ParseTotal ==
  LastOp("PitchClass.fromString") =>
    IF IsPitchClassName(last.arg)
      THEN /\ last.ret.kind = "number"
           /\ last.ret.value \in 0..11
           /\ last.ret.value = UnnormalizedValue(last.arg) % 12
      ELSE last.ret = Err("is not a pitch class name")

\* a Helmholtz name: a pitch class name, then commas, then apostrophes
HelmholtzParts(name) ==
  LET c == SpanEnd(name, 2, AccidentalTokens)
      a == SpanEnd(name, c, {","})
  IN [pitchClassName |-> SubSeq(name, 1, c - 1),
      commas |-> a - c,
      apostrophes |-> Len(name) + 1 - a]

\* C14: the Helmholtz parser returns, for a letter, accidentals, c commas and a
\* apostrophes, 12 * (4 - u - c + a) plus the unnormalized value of the letter and
\* the accidentals, u being 1 for an upper-case letter and 0 for a lower-case one,
\* whatever the accidentals are.
C14_HelmholtzOctave ==
  LastOp("fromHelmholtzNotation") =>
    LET parts == HelmholtzParts(last.arg)
        u == IF last.arg[1] \in Range(UpperLetters) THEN 1 ELSE 0
    IN /\ last.ret.kind = "number"
       /\ last.ret.value = 12 * (4 - u - parts.commas + parts.apostrophes)
                             + UnnormalizedValue(parts.pitchClassName)

IsAscending(s) == \A j \in 1..(Len(s) - 1) : s[j] < s[j + 1]

\* the pitch classes of mode i of the sequence s, i counted from 0
ModePitchClasses(s, i) ==
  [j \in 1..Len(s) |-> (s[((i + j - 1) % Len(s)) + 1] - s[i + 1]) % 12]

\* C15: mode i of a scale's pitch classes s, of length p, has the pitch classes
\* (s[(i+j) mod p] - s[i]) mod 12 for j = 0..p-1: it starts at 0, its entries are in
\* 0..11, it is strictly ascending when s is, and mode 0 is s; the modes a
\* registered scale holds, during start-up and after it, are these, in the order
\* of the mode names.
C15_ModeDerivation ==
  /\ LastOp("rotatePitchClasses") =>
       LET s == last.arg.pitchClasses
           mode == last.ret.value
       IN /\ mode = ModePitchClasses(s, last.arg.i)
          /\ mode[1] = 0
          /\ \A j \in 1..Len(mode) : mode[j] \in 0..11
          /\ IsAscending(s) => IsAscending(mode)
          /\ last.arg.i = 0 => mode = s
  /\ pc \in {"loadScales", "idle"} =>
       \A name \in DOMAIN instances :
         \A j \in 1..Len(instances[name].modes) :
           instances[name].modes[j].pitchClasses
             = ModePitchClasses(instances[name].pitchClasses, j - 1)

C15_Witness ==
  /\ LastOp("rotatePitchClasses")
  /\ last.arg.pitchClasses = <<0, 2, 4, 5, 7, 9, 11>>
  /\ last.arg.i = 3
  /\ last.ret.value = <<0, 2, 4, 6, 7, 9, 11>>
  /\ instances[diatonicMajorScaleName].modes[4].pitchClasses = <<0, 2, 4, 6, 7, 9, 11>>

\* the value is the chord of the class named className at the degree of the numeral
\* in the key
IsNumeralChord(v, key, numeral, className) ==
  /\ v.kind = "Chord"
  /\ v.root = key.notes[1 + indexOf(chordRomanNumerals, toUpperCase(numeral))]
  /\ className \in DOMAIN chordMap
  /\ v.chordClass = chordClassArray[chordMap[className]]

\* the chord class the case of a numeral stands for
ClassOfCase(numeral) == IF numeral = toUpperCase(numeral) THEN Major ELSE Minor

\* C16: every suffix of the modifier table maps to a name or an abbreviation that
\* the chord map has, and a token that is a numeral of uniform case followed by a
\* suffix of the table resolves, in a Key, to the chord of that class at the degree
\* of the numeral.
C16_ModifiersRegistered ==
  /\ StartedUp =>
       \A m \in TableModifiers : romanNumeralModifiers(m) \in DOMAIN chordMap
  /\ LastOp("fromRomanNumeral") =>
       \A n \in UniformNumerals, m \in TableModifiers :
         last.arg = n \o m =>
           IsNumeralChord(last.ret, receiver, n, romanNumeralModifiers(m))

\* C17: progression(text) of a text whose tokens, split at the runs of white space,
\* hyphen and plus, are numerals of uniform case returns one chord per token, in
\* the order of the tokens, each the chord fromRomanNumeral is to return for the
\* token; of a text with a token that is empty, no numeral or of mixed case it
\* returns an error and no chords.
C17_Progression ==
  LastOp("progression") =>
    LET tokens == split(last.arg, ProgressionSeparators)
    IN /\ (\A i \in 1..Len(tokens) : tokens[i] \in UniformNumerals) =>
            /\ last.ret.kind = "Chords"
            /\ Len(last.ret.value) = Len(tokens)
            /\ \A i \in 1..Len(tokens) :
                 IsNumeralChord(last.ret.value[i], receiver, tokens[i],
                                ClassOfCase(tokens[i]))
       /\ (\E i \in 1..Len(tokens) :
              tokens[i] \in {<<>>, <<"x">>} \/ HasMixedCaseNumeral(tokens[i]))
            => IsErr(last.ret)

\* C18: progression(t) of a single token t, a numeral of uniform case alone or
\* followed by the suffix 7, + or +7 of the modifier table, returns the sequence of one chord, the chord fromRomanNumeral(t) is to
\* return: the class of the modifier, or of the case of the numeral, at the degree
\* of the numeral.
C18_SingleTokenProgression ==
  LastOp("progression") =>
    \A n \in UniformNumerals, m \in {<<>>, <<"7">>, <<"+">>, <<"+","7">>} :
      last.arg = n \o m =>
        /\ last.ret.kind = "Chords"
        /\ Len(last.ret.value) = 1
        /\ IsNumeralChord(last.ret.value[1], receiver, n,
                          IF m = <<>> THEN ClassOfCase(n) ELSE romanNumeralModifiers(m))

\* chords() without sevenths, of a Key made by Scale.fromString(name).at(tonic)
TriadsCall ==
  /\ Ops(<<"Scale.fromString", "at", "chords">>)
  /\ calls[3].arg = FALSE

\* C19, as claimed: for every registered scale and every tonic, chords() without
\* sevenths returns one chord per pitch class of the scale and no error.
C19_ChordsNeverRaise ==
  TriadsCall =>
    /\ last.ret.kind = "Chords"
    /\ Len(last.ret.value) = Len(receiver.pitchClasses)

\* the scales whose pitch classes 0, 2, 4 of every rotation are a registered triad
TriadScaleNames ==
  { diatonicMajorScaleName,
    <<"N","a","t","u","r","a","l"," ","M","i","n","o","r">>,
    <<"M","e","l","o","d","i","c"," ","M","i","n","o","r">>,
    <<"H","a","r","m","o","n","i","c"," ","M","i","n","o","r">>,
    <<"F","r","e","y","g","i","s","h">>,
    <<"W","h","o","l","e"," ","T","o","n","e">>,
    <<"O","c","t","a","t","o","n","i","c">> }

\* C19, amended: at every tonic, chords() without sevenths returns one chord per
\* pitch class, the i-th rooted at the i-th note of the key, for the scales
\* Diatonic Major, Natural Minor, Melodic Minor, Harmonic Minor, Freygish, Whole
\* Tone and Octatonic; for Major Pentatonic, Minor Pentatonic and Blues it returns
\* the error of no matching chord class and no chords.
C19_TriadScales ==
  TriadsCall =>
    IF calls[1].arg \in TriadScaleNames
      THEN /\ last.ret.kind = "Chords"
           /\ Len(last.ret.value) = Len(receiver.pitchClasses)
           /\ \A i \in 1..Len(last.ret.value) :
                /\ last.ret.value[i].kind = "Chord"
                /\ last.ret.value[i].root = receiver.notes[i]
      ELSE last.ret = Err("no matching chord class")

C19_Witness ==
  /\ TriadsCall
  /\ calls[1].arg = <<"B","l","u","e","s">>
  /\ calls[2].arg = EPitchClass
  /\ last.ret = Err("no matching chord class")

\* the number of scales of the table constructed and registered so far
RegisteredScales ==
  IF pc = "loadChords" THEN 0 ELSE IF pc = "loadScales" THEN ix ELSE Len(scaleMap)

\* C20: start-up registers the scales one at a time in the order of the table and
\* never fails: after k steps the registry holds the first k scales of the table,
\* and each of them that names a parent (Natural Minor, Minor Pentatonic) has as
\* parent the registered instance of an earlier scale of the table.
C20_ParentsRegisteredFirst ==
  /\ pc # "failed"
  /\ DOMAIN instances = {scaleMap[i].name : i \in 1..RegisteredScales}
  /\ \A i \in 1..RegisteredScales :
       /\ instances[scaleMap[i].name].id = <<i, 0>>
       /\ IF scaleMap[i].parent = <<>>
            THEN instances[scaleMap[i].name].parent = <<>>
          ELSE \E k \in 1..(i - 1) :
                 /\ scaleMap[k].name = scaleMap[i].parent
                 /\ instances[scaleMap[i].parent].id = <<k, 0>>
                 /\ instances[scaleMap[i].name].parent = <<k, 0>>

C20_Witness ==
  /\ pc = "loadScales"
  /\ ix = 4
  /\ instances[<<"M","i","n","o","r"," ","P","e","n","t","a","t","o","n","i","c">>].parent
       = <<3, 0>>
  /\ instances[<<"N","a","t","u","r","a","l"," ","M","i","n","o","r">>].parent = <<1, 0>>

=============================================================================
